---- MODULE Spec2Model ----
(***************************************************************************)
(* masa-oracle node: peer discovery, DHT bootstrap and node-membership     *)
(* tracking.  The model follows                                            *)
(*   pkg/oracle_node.go   (src/unnamed/part_002)  OracleNode.Start,        *)
(*                         handleDiscoveredPeers, handleStream             *)
(*   pkg/network/kdht.go  (src/unnamed/part_001)  WithDht                  *)
(*   cmd/masa-node/main.go                        main, signal goroutine   *)
(* The NodeEventTracker (pkg/pubsub) is not part of the sources at hand;   *)
(* its operations are modelled from the specification, section 4.3.        *)
(***************************************************************************)
EXTENDS Integers, Sequences, FiniteSets, TLC

\* ------------------------------------------------------------------ bounds
\* longest bootstrap address list
MaxBoot == 2
\* longest bootstrap address list in the runs checked for liveness
MaxBootFair == 1
\* inbound node-data streams handled during one run
MaxStreams == 2
\* routing-table events raised from the library's own context during one run
MaxRtEvents == 1

\* ------------------------------------------------------- program constants
maxRetries == 3

PeerAdded == "PeerAdded"
PeerRemoved == "PeerRemoved"

\* --------------------------------------------------------------- universes
Self == "self"
NoPeer == "nopeer"
RemotePeers == {"p1", "p2"}
Peers == RemotePeers \cup {Self}
MultiAddrs == {"ma1", "ma2"}
Handlers == {1, 2}

\* a bootstrap multiaddress either carries a peer identity or does not
\* (peer.AddrInfoFromP2pAddr fails and returns a nil *AddrInfo)
BootAddrs == Peers \cup {NoPeer}

RECURSIVE SeqsUpTo(_, _)
SeqsUpTo(S, n) ==
    IF n = 0 THEN {<<>>}
    ELSE LET shorter == SeqsUpTo(S, n - 1)
         IN  shorter \cup {Append(s, x) : s \in {t \in shorter : Len(t) = n - 1}, x \in S}

\* ------------------------------------------------------------------ errors
\* an error value: nil, or a message (a sequence of words)
NilErr == [isNil |-> TRUE, msg |-> <<>>]
Err(m) == [isNil |-> FALSE, msg |-> m]
ErrUnstaked == Err(<<"un-staked", "node">>)
ErrRead == Err(<<"stream", "reset">>)
ErrMentionsUnstaked == Err(<<"read", "un-staked">>)
ErrEmptyPeerId == Err(<<"empty", "peerId">>)

\* strings.HasPrefix
HasPrefix(s, prefix) ==
    /\ Len(prefix) <= Len(s)
    /\ SubSeq(s, 1, Len(prefix)) = prefix

\* ---------------------------------------------------------------- NodeData
ActivityJoined == "Joined"
ActivityLeft == "Left"

NoRecord ==
    [peerId |-> NoPeer, multiaddr |-> "", isStaked |-> FALSE,
     selfIdentified |-> FALSE, activity |-> "Unknown"]

\* pubsub.NewNodeData(addr, peerId, ethAddress, activity); the ethereum
\* address is carried through untouched and is not part of the model
NewNodeData(addr, peerId, activity) ==
    [peerId |-> peerId, multiaddr |-> addr, isStaked |-> FALSE,
     selfIdentified |-> FALSE, activity |-> activity]

\* NodeData.Joined / NodeData.Left
Joined(rec) == [rec EXCEPT !.activity = ActivityJoined]
Left(rec) == [rec EXCEPT !.activity = ActivityLeft]

\* ----------------------------------------------------------------- Tracker
\* get(peerId): the record held for peerId, NoRecord when there is none
GetNodeData(nd, peerId) == nd[peerId]

\* addOrUpdate(candidate, allowDowngrade): the tracker map afterwards and the
\* error returned
AddOrUpdateNodeData(nd, candidate, allowDowngrade) ==
    IF candidate.peerId = NoPeer
    THEN [nd |-> nd, err |-> ErrEmptyPeerId]
    ELSE IF nd[candidate.peerId] = NoRecord
    THEN [nd |-> [nd EXCEPT ![candidate.peerId] = candidate], err |-> NilErr]
    ELSE LET old == nd[candidate.peerId]
             staked == IF old.isStaked /\ ~candidate.isStaked /\ ~allowDowngrade
                       THEN TRUE
                       ELSE candidate.isStaked
         IN  [nd |-> [nd EXCEPT ![candidate.peerId] =
                         [old EXCEPT !.multiaddr = candidate.multiaddr,
                                     !.activity = candidate.activity,
                                     !.isStaked = staked]],
              err |-> NilErr]

\* HandleNodeData(data): the record is merged into the map
HandleNodeData(nd, data) == AddOrUpdateNodeData(nd, data, FALSE).nd

\* DumpNodeData(): a point-in-time copy of the whole map
DumpNodeData(nd) == nd

\* ------------------------------------------------------------------- state
VARIABLES
    \* configuration, fixed for a run
    bootstrapNodes,      \* config Bootnodes as multiaddresses (Start, line 122)
    isStaked,            \* main's isStaked, OracleNode.IsStaked
    \* main and Start
    mainPc,              \* position of the main goroutine
    streamHandlers,      \* protocols with a stream handler installed
    ctxDone,             \* the process-wide context has been cancelled
    \* NodeEventTracker
    nodeData,            \* peerId -> NodeData (NoRecord when absent)
    dump,                \* what DumpNodeData persisted, NoDump before
    \* main's signal goroutine
    sigPc,
    \* handleStream, one slot per concurrently running handler
    hPc, hStream, hOutcome, hLog, streamsHandled,
    \* WithDht
    dhtPc, idx, wg, peerConnectionCount, warned, registered, regFailed,
    resolveLogged,
    \* WithDht's per-address goroutines
    gPc, counter, attempts, gTmp, gStream, gWrote,
    \* handleDiscoveredPeers
    dispPc, dispEvent, dispActs, recvCount,
    \* PeerChan: the senders blocked in peerChan <- pe
    pending, emitted, rtEmitted,
    \* monitorRoutingTable
    monPc,
    \* what became of the last inbound stream of the gossip protocol
    gossipIn

cfgVars == <<bootstrapNodes, isStaked>>
mainVars == <<mainPc, streamHandlers, ctxDone>>
trackerVars == <<nodeData, dump>>
streamVars == <<hPc, hStream, hOutcome, hLog, streamsHandled>>
dhtVars == <<dhtPc, idx, wg, peerConnectionCount, warned, registered, regFailed,
            resolveLogged>>
goVars == <<gPc, counter, attempts, gTmp, gStream, gWrote>>
dispVars == <<dispPc, dispEvent, dispActs, recvCount>>
chanVars == <<pending, emitted, rtEmitted>>

vars == <<cfgVars, mainVars, trackerVars, sigPc, streamVars, dhtVars, goVars,
          dispVars, chanVars, monPc, gossipIn>>

NoDump == [p \in Peers |-> [NoRecord EXCEPT !.activity = "NoDump"]]

\* PeerEvent{AddrInfo{ID: p}, Action, Source: "kdht"}; src and seq identify
\* the emission (which callback invocation built it)
NoEvent == [src |-> "none", seq |-> 0, action |-> "none", peer |-> NoPeer]
PeerEvent(src, seq, action, p) == [src |-> src, seq |-> seq, action |-> action, peer |-> p]
Sources == {"boot", "rt"}
EventIds == ({"boot"} \X (1..MaxBoot)) \cup ({"rt"} \X (1..MaxRtEvents))

\* what handleStreamData hands back: (remotePeer, nodeData, err)
StreamErrors == {ErrUnstaked, ErrRead, ErrMentionsUnstaked}
NoStream == [err |-> NilErr, remotePeer |-> NoPeer, peerId |-> NoPeer,
             isStaked |-> FALSE, addr |-> ""]
StreamResults ==
    {[NoStream EXCEPT !.err = e] : e \in StreamErrors}
    \cup [err : {NilErr}, remotePeer : RemotePeers, peerId : Peers,
          isStaked : BOOLEAN, addr : MultiAddrs]

NoOutcome == [kind |-> "none", remotePeer |-> NoPeer, isStaked |-> FALSE, addr |-> ""]
Outcome(kind, r) ==
    [kind |-> kind, remotePeer |-> r.remotePeer, isStaked |-> r.isStaked, addr |-> r.addr]

\* an inbound gossip stream: handed to GossipNodeData or refused by the host
NoGossip == [fate |-> "none", senderStaked |-> FALSE]
GossipFate(fate, senderStaked) == [fate |-> fate, senderStaked |-> senderStaked]

Alive == mainPc \notin {"exited", "crashed"}
Goroutines == 1..Len(bootstrapNodes)

\* config.HasBootnodes()
HasBootnodes == Len(bootstrapNodes) > 0

\* the network around the node: p1 answers a dial, p2 never does
Reachable == {"p1"}

\* host.Connect(ctx, peer): the results it can give; a cancelled context can
\* fail a dial that would have gone through
ConnectOutcomes(p, cancelled) ==
    IF cancelled
    THEN {FALSE} \cup (IF p \in Reachable THEN {TRUE} ELSE {})
    ELSE {p \in Reachable}

\* -------------------------------------------------------------------- Init
Init ==
    /\ bootstrapNodes \in SeqsUpTo(BootAddrs, MaxBoot)
    /\ isStaked \in BOOLEAN
    /\ mainPc = "new"
    /\ streamHandlers = {}
    /\ ctxDone = FALSE
    /\ nodeData = [p \in Peers |-> NoRecord]
    /\ dump = NoDump
    /\ sigPc = "off"
    /\ hPc = [h \in Handlers |-> "idle"]
    /\ hStream = [h \in Handlers |-> NoStream]
    /\ hOutcome = [h \in Handlers |-> NoOutcome]
    /\ hLog = [h \in Handlers |-> "none"]
    /\ streamsHandled = 0
    /\ dhtPc = "off"
    /\ idx = 1
    /\ wg = 0
    /\ peerConnectionCount = 0
    /\ warned = FALSE
    /\ registered = {}
    /\ regFailed = {}
    /\ resolveLogged = {}
    /\ gPc = [i \in Goroutines |-> "none"]
    /\ counter = [i \in Goroutines |-> 0]
    /\ attempts = [i \in Goroutines |-> 0]
    /\ gTmp = [i \in Goroutines |-> 0]
    /\ gStream = [i \in Goroutines |-> "none"]
    /\ gWrote = [i \in Goroutines |-> "none"]
    /\ dispPc = "off"
    /\ dispEvent = NoEvent
    /\ dispActs = <<>>
    /\ recvCount = [e \in EventIds |-> 0]
    /\ pending = [s \in Sources |-> NoEvent]
    /\ emitted = {}
    /\ rtEmitted = 0
    /\ monPc = "off"
    /\ gossipIn = NoGossip

\* ------------------------------------------------------- OracleNode.Start
\* position of WithDht's for loop once index i is reached
LoopPc(i) == IF i > Len(bootstrapNodes) THEN "wait" ELSE "loop"

\* Start lines 127-132: the protocols given a stream handler
HandlersAtStartAllGossip(staked) == {"oracle", "nodeDataSync", "gossip"}
HandlersAtStart(staked) ==
    {"oracle", "nodeDataSync"} \cup (IF staked THEN {"gossip"} ELSE {})

\* Start up to the call of WithDht, and WithDht up to its for loop: the stream
\* handlers are installed, the dispatcher goroutine is started, the routing
\* table monitor is started (WithDht line 43), the routing table callbacks
\* are set
StartInstall ==
    /\ mainPc = "new"
    /\ mainPc' = "withDht"
    /\ streamHandlers' = HandlersAtStart(isStaked)
    /\ dispPc' = "select"
    /\ monPc' = "select"
    /\ dhtPc' = LoopPc(1)
    /\ idx' = 1
    /\ wg' = 0
    /\ peerConnectionCount' = 0
    /\ UNCHANGED <<cfgVars, gossipIn, ctxDone, trackerVars, sigPc, streamVars, warned,
                   registered, regFailed, resolveLogged, goVars, dispEvent, dispActs,
                   recvCount, chanVars>>

\* ---------------------------------------------------------------- WithDht
\* lines 74-78 for an address that does not resolve: the error is logged, and
\* peerInfo (nil) is dereferenced
DhtResolveFail ==
    /\ Alive /\ dhtPc = "loop"
    /\ bootstrapNodes[idx] = NoPeer
    /\ resolveLogged' = resolveLogged \cup {idx}
    /\ dhtPc' = "panicked"
    /\ mainPc' = "crashed"
    /\ UNCHANGED <<cfgVars, gossipIn, monPc, streamHandlers, ctxDone, trackerVars, sigPc,
                   streamVars, idx, wg, peerConnectionCount, warned,
                   registered, regFailed, goVars, dispVars, chanVars>>

\* line 78: peerInfo.ID == host.ID()
IsSelfNever(a) == FALSE
IsSelf(a) == a = Self

\* lines 78-81: the address is the local node's own
DhtSkipSelf ==
    /\ Alive /\ dhtPc = "loop"
    /\ bootstrapNodes[idx] # NoPeer /\ IsSelf(bootstrapNodes[idx])
    /\ idx' = idx + 1
    /\ dhtPc' = LoopPc(idx + 1)
    /\ UNCHANGED <<cfgVars, gossipIn, monPc, mainVars, trackerVars, sigPc, streamVars, wg,
                   peerConnectionCount, warned, registered, regFailed, resolveLogged,
                   goVars, dispVars, chanVars>>

\* lines 83-90: TryAddPeer; when the peer enters the table the PeerAdded
\* callback (lines 45-54) runs inside the call and sends on peerChan
TryAddPeerResults == {"added", "notAdded", "err"}

DhtTryAddPeer(res) ==
    /\ Alive /\ dhtPc = "loop"
    /\ bootstrapNodes[idx] # NoPeer /\ ~IsSelf(bootstrapNodes[idx])
    /\ registered' = registered \cup {idx}
    /\ regFailed' = IF res = "added" THEN regFailed ELSE regFailed \cup {idx}
    /\ IF res = "added"
       THEN /\ pending' = [pending EXCEPT !["boot"] =
                              PeerEvent("boot", idx, PeerAdded, bootstrapNodes[idx])]
            /\ emitted' = emitted \cup {<<"boot", idx>>}
            /\ dhtPc' = "cbsend"
       ELSE /\ UNCHANGED <<pending, emitted>>
            /\ dhtPc' = "spawn"
    /\ UNCHANGED <<cfgVars, gossipIn, monPc, mainVars, trackerVars, sigPc, streamVars, idx, wg,
                   peerConnectionCount, warned, resolveLogged, goVars,
                   dispVars, rtEmitted>>

\* lines 92-94 and 126: wg.Add(1), counter := 0, go func
DhtSpawn ==
    /\ Alive /\ dhtPc = "spawn"
    /\ wg' = wg + 1
    /\ gPc' = [gPc EXCEPT ![idx] = "connect"]
    /\ counter' = [counter EXCEPT ![idx] = 0]
    /\ idx' = idx + 1
    /\ dhtPc' = LoopPc(idx + 1)
    /\ UNCHANGED <<cfgVars, gossipIn, monPc, gWrote, mainVars, trackerVars, sigPc, streamVars,
                   peerConnectionCount, warned, registered, regFailed, resolveLogged,
                   attempts, gTmp, gStream, dispVars, chanVars>>

\* line 128: wg.Wait() lets the caller go on
WgWaitReturnsEarly(w) == TRUE
WgWaitReturns(w) == w = 0

\* lines 128-132: wg.Wait(), the soft warning, return kademliaDHT, nil
DhtWaitReturn ==
    /\ Alive /\ dhtPc = "wait"
    /\ WgWaitReturns(wg)
    /\ warned' = (Len(bootstrapNodes) > 0 /\ peerConnectionCount = 0)
    /\ dhtPc' = "returned"
    /\ mainPc' = "selfRecord"
    /\ UNCHANGED <<cfgVars, gossipIn, monPc, streamHandlers, ctxDone, trackerVars, sigPc,
                   streamVars, idx, wg, peerConnectionCount, registered, regFailed,
                   resolveLogged, goVars, dispVars, chanVars>>

\* ------------------------------------------- WithDht's attempt goroutines
\* the goroutine function returns: deferred wg.Done() and cancel()
GoReturn(i) ==
    /\ gPc' = [gPc EXCEPT ![i] = "done"]
    /\ wg' = wg - 1

\* line 102: the attempt gives up
GivesUp(c) == c >= maxRetries

\* lines 99-107: host.Connect under the 30 s timeout context
GoConnect(i, ok) ==
    /\ Alive /\ gPc[i] = "connect"
    /\ ok \in ConnectOutcomes(bootstrapNodes[i], ctxDone)
    /\ attempts' = [attempts EXCEPT ![i] = @ + 1]
    /\ IF ok
       THEN /\ gPc' = [gPc EXCEPT ![i] = "newstream"]
            /\ UNCHANGED <<counter, wg>>
       ELSE /\ counter' = [counter EXCEPT ![i] = @ + 1]
            /\ IF GivesUp(counter[i] + 1)
               THEN GoReturn(i)
               ELSE /\ gPc' = [gPc EXCEPT ![i] = "sleep"]
                    /\ UNCHANGED wg
    /\ UNCHANGED <<cfgVars, gossipIn, monPc, gWrote, mainVars, trackerVars, sigPc, streamVars, dhtPc,
                   idx, peerConnectionCount, warned, registered, regFailed,
                   resolveLogged, gTmp, gStream, dispVars, chanVars>>

\* line 105: time.Sleep(retryDelay) is over; nothing follows the if statement
GoSleepDone(i) ==
    /\ Alive /\ gPc[i] = "sleep"
    /\ GoReturn(i)
    /\ UNCHANGED <<cfgVars, gossipIn, monPc, gWrote, mainVars, trackerVars, sigPc, streamVars, dhtPc,
                   idx, peerConnectionCount, warned, registered, regFailed,
                   resolveLogged, counter, attempts, gTmp, gStream, dispVars,
                   chanVars>>

\* lines 108-113: host.NewStream, and the load of peerConnectionCount++, a
\* variable the goroutines share without synchronisation
GoNewStream(i, ok) ==
    /\ Alive /\ gPc[i] = "newstream"
    /\ IF ok
       THEN /\ gStream' = [gStream EXCEPT ![i] = "open"]
            /\ gTmp' = [gTmp EXCEPT ![i] = peerConnectionCount]
            /\ gPc' = [gPc EXCEPT ![i] = "incrWrite"]
            /\ UNCHANGED wg
       ELSE /\ GoReturn(i)
            /\ UNCHANGED <<gStream, gTmp>>
    /\ UNCHANGED <<cfgVars, gossipIn, monPc, gWrote, mainVars, trackerVars, sigPc, streamVars, dhtPc,
                   idx, peerConnectionCount, warned, registered, regFailed,
                   resolveLogged, counter, attempts, dispVars, chanVars>>

\* line 113: the store of peerConnectionCount++
GoIncrWrite(i) ==
    /\ Alive /\ gPc[i] = "incrWrite"
    /\ peerConnectionCount' = gTmp[i] + 1
    /\ gTmp' = [gTmp EXCEPT ![i] = 0]
    /\ gPc' = [gPc EXCEPT ![i] = "write"]
    /\ UNCHANGED <<cfgVars, gossipIn, monPc, gWrote, mainVars, trackerVars, sigPc, streamVars, dhtPc,
                   idx, wg, warned, registered, regFailed, resolveLogged, counter,
                   attempts, gStream, dispVars, chanVars>>

\* lines 114-119: the stream once the goroutine function has returned; the
\* deferred stream.Close() was registered before the Write
StreamAfterWriteLeak(ok) == IF ok THEN "closed" ELSE "open"
StreamAfterWrite(ok) == "closed"

\* lines 114-125: stream.Write, whatever its result the deferred
\* stream.Close() runs when the function returns
GoWrite(i, ok) ==
    /\ Alive /\ gPc[i] = "write"
    /\ gWrote' = [gWrote EXCEPT ![i] = IF ok THEN "ok" ELSE "failed"]
    /\ gStream' = [gStream EXCEPT ![i] = StreamAfterWrite(ok)]
    /\ GoReturn(i)
    /\ UNCHANGED <<cfgVars, gossipIn, monPc, mainVars, trackerVars, sigPc, streamVars, dhtPc,
                   idx, peerConnectionCount, warned, registered, regFailed,
                   resolveLogged, counter, attempts, gTmp, dispVars, chanVars>>

\* -------------------------------------------------- handleDiscoveredPeers
\* line 172: the select takes a PeerEvent from a sender blocked on PeerChan;
\* the sender's peerChan <- pe completes in the same step
DispatcherReceive(s) ==
    /\ Alive /\ dispPc = "select"
    /\ pending[s] # NoEvent
    /\ recvCount' = [recvCount EXCEPT ![<<pending[s].src, pending[s].seq>>] = @ + 1]
    /\ pending' = [pending EXCEPT ![s] = NoEvent]
    /\ dispEvent' = pending[s]
    /\ dispActs' = <<>>
    /\ dispPc' = IF pending[s].action = PeerAdded THEN "connect" ELSE "select"
    /\ dhtPc' = IF s = "boot" THEN "spawn" ELSE dhtPc
    /\ UNCHANGED <<cfgVars, gossipIn, monPc, mainVars, trackerVars, sigPc, streamVars, idx, wg,
                   peerConnectionCount, warned, registered, regFailed, resolveLogged,
                   goVars, emitted, rtEmitted>>

\* lines 176-185: where the loop goes after Connect; the failure branch ends
\* in continue, the success branch falls out of the select
AfterConnectReturnOnFail(ok) == IF ok THEN "select" ELSE "exited"
AfterConnect(ok) == "select"

\* lines 176-184: the network calls made for a PeerAdded event
ActsForAddedNoClose(ok) == <<"Connect">>
ActsForAdded(ok) == IF ok THEN <<"Connect">> ELSE <<"Connect", "ClosePeer">>

\* lines 176-184: Connect, and ClosePeer when it failed
DispatcherConnect(ok) ==
    /\ Alive /\ dispPc = "connect"
    /\ ok \in ConnectOutcomes(dispEvent.peer, ctxDone)
    /\ dispActs' = ActsForAdded(ok)
    /\ dispPc' = AfterConnect(ok)
    /\ UNCHANGED <<cfgVars, gossipIn, monPc, mainVars, trackerVars, sigPc, streamVars, dhtVars,
                   goVars, dispEvent, recvCount, chanVars>>

\* lines 186-187: the select takes ctx.Done()
DispatcherExit ==
    /\ Alive /\ dispPc = "select"
    /\ ctxDone
    /\ dispPc' = "exited"
    /\ UNCHANGED <<cfgVars, gossipIn, monPc, mainVars, trackerVars, sigPc, streamVars, dhtVars,
                   goVars, dispEvent, dispActs, recvCount, chanVars>>

\* WithDht lines 45-64: the routing table calls PeerAdded or PeerRemoved from
\* its own context (table refresh, eviction); the callback builds the event
\* and reaches peerChan <- pe
RtCallback(action, p) ==
    /\ Alive /\ dhtPc # "off"
    /\ pending["rt"] = NoEvent
    /\ rtEmitted < MaxRtEvents
    /\ rtEmitted' = rtEmitted + 1
    /\ pending' = [pending EXCEPT !["rt"] = PeerEvent("rt", rtEmitted + 1, action, p)]
    /\ emitted' = emitted \cup {<<"rt", rtEmitted + 1>>}
    /\ UNCHANGED <<cfgVars, gossipIn, monPc, mainVars, trackerVars, sigPc, streamVars, dhtVars,
                   goVars, dispVars>>

\* ---------------------------------------------------- monitorRoutingTable
\* lines 144-149: the ticker fires and the select takes it
MonitorTick ==
    /\ Alive /\ monPc = "select"
    /\ monPc' = "logging"
    /\ UNCHANGED <<cfgVars, gossipIn, mainVars, trackerVars, sigPc, streamVars, dhtVars,
                   goVars, dispVars, chanVars>>

\* lines 145-149: the table's size and peers are logged, back to the select
MonitorLogged ==
    /\ Alive /\ monPc = "logging"
    /\ monPc' = "select"
    /\ UNCHANGED <<cfgVars, gossipIn, mainVars, trackerVars, sigPc, streamVars, dhtVars,
                   goVars, dispVars, chanVars>>

\* lines 150-152: where the monitor goes when the select takes ctx.Done()
AfterMonitorDoneLoops == "select"
AfterMonitorDone == "exited"

\* lines 150-152: the select takes ctx.Done()
MonitorExit ==
    /\ Alive /\ monPc = "select"
    /\ ctxDone
    /\ monPc' = AfterMonitorDone
    /\ UNCHANGED <<cfgVars, gossipIn, mainVars, trackerVars, sigPc, streamVars, dhtVars,
                   goVars, dispVars, chanVars>>

\* ------------------------------------------ Start after WithDht, and main
\* Start lines 149-159: the local node's record
StartSelfRecord(nd) ==
    IF HasBootnodes
    THEN LET found == GetNodeData(nd, Self)
             rec == IF found = NoRecord
                    THEN [NewNodeData("ma1", Self, ActivityJoined)
                             EXCEPT !.isStaked = isStaked, !.selfIdentified = TRUE]
                    ELSE found
         IN  HandleNodeData(nd, Joined(rec))
    ELSE nd

\* Start lines 142-166 and main lines 56-83: Start returns, main starts the
\* signal goroutine and goes on to wait for ctx.Done()
StartReturn ==
    /\ mainPc = "selfRecord"
    /\ nodeData' = StartSelfRecord(nodeData)
    /\ mainPc' = "running"
    /\ sigPc' = "wait"
    /\ UNCHANGED <<cfgVars, gossipIn, monPc, streamHandlers, ctxDone, dump, streamVars, dhtVars,
                   goVars, dispVars, chanVars>>

\* main lines 77-80: the record GetNodeData returns is the one the Tracker
\* holds, and Left() marks it
ShutdownMarkNothing(nd) == nd
ShutdownMark(nd) ==
    IF GetNodeData(nd, Self) # NoRecord
    THEN [nd EXCEPT ![Self] = Left(@)]
    ELSE nd

\* main lines 76-80: a SIGINT or SIGTERM arrives
SignalMarkLeft ==
    /\ Alive /\ sigPc = "wait"
    /\ nodeData' = ShutdownMark(nodeData)
    /\ sigPc' = "left"
    /\ UNCHANGED <<cfgVars, gossipIn, monPc, mainVars, dump, streamVars, dhtVars, goVars,
                   dispVars, chanVars>>

\* main line 81
SignalDump ==
    /\ Alive /\ sigPc = "left"
    /\ dump' = DumpNodeData(nodeData)
    /\ sigPc' = "dumped"
    /\ UNCHANGED <<cfgVars, gossipIn, monPc, mainVars, nodeData, streamVars, dhtVars, goVars,
                   dispVars, chanVars>>

\* main line 82
SignalCancel ==
    /\ Alive /\ sigPc = "dumped"
    /\ ctxDone' = TRUE
    /\ sigPc' = "done"
    /\ UNCHANGED <<cfgVars, gossipIn, monPc, mainPc, streamHandlers, trackerVars, streamVars,
                   dhtVars, goVars, dispVars, chanVars>>

\* main line 99: <-ctx.Done() returns and main ends, and with it the process
MainExit ==
    /\ mainPc = "running"
    /\ ctxDone
    /\ mainPc' = "exited"
    /\ UNCHANGED <<cfgVars, gossipIn, monPc, streamHandlers, ctxDone, trackerVars, sigPc,
                   streamVars, dhtVars, goVars, dispVars, chanVars>>

\* ------------------------------------------------ OracleNode.handleStream
\* line 195
IsUnstakedErrNever(err) == FALSE
IsUnstakedErr(err) == HasPrefix(err.msg, <<"un-staked">>)

\* line 202
PeerMatchesAlways(r) == TRUE
PeerMatches(r) == r.remotePeer = r.peerId

\* line 209, the second argument of AddOrUpdateNodeData
AllowDowngradeTrue == TRUE
AllowDowngrade == FALSE

\* lines 206-208: the record handed to the Tracker
StreamNodeDataUnstaked(r) == NewNodeData(r.addr, r.remotePeer, ActivityJoined)
StreamNodeData(r) ==
    [NewNodeData(r.addr, r.remotePeer, ActivityJoined) EXCEPT !.isStaked = r.isStaked]

\* a peer opens a stream of the node's primary protocol; libp2p starts
\* handleStream in a goroutine of its own
StreamOpen(h, r) ==
    /\ Alive /\ "oracle" \in streamHandlers
    /\ hPc[h] = "idle"
    /\ streamsHandled < MaxStreams
    /\ streamsHandled' = streamsHandled + 1
    /\ hPc' = [hPc EXCEPT ![h] = "handling"]
    /\ hStream' = [hStream EXCEPT ![h] = r]
    /\ hOutcome' = [hOutcome EXCEPT ![h] = NoOutcome]
    /\ hLog' = [hLog EXCEPT ![h] = "none"]
    /\ UNCHANGED <<cfgVars, gossipIn, monPc, mainVars, trackerVars, sigPc, dhtVars, goVars,
                   dispVars, chanVars>>

\* lines 192-215
HandleStream(h) ==
    /\ Alive /\ hPc[h] = "handling"
    /\ LET r == hStream[h]
           newNodeData == StreamNodeData(r)
           upd == AddOrUpdateNodeData(nodeData, newNodeData, AllowDowngrade)
       IN  IF ~r.err.isNil
           THEN IF IsUnstakedErr(r.err)
                THEN /\ hOutcome' = [hOutcome EXCEPT ![h] = Outcome("unstaked", r)]
                     /\ hLog' = [hLog EXCEPT ![h] = "none"]
                     /\ UNCHANGED nodeData
                ELSE /\ hOutcome' = [hOutcome EXCEPT ![h] = Outcome("readError", r)]
                     /\ hLog' = [hLog EXCEPT ![h] = "error"]
                     /\ UNCHANGED nodeData
           ELSE IF ~PeerMatches(r)
           THEN /\ hOutcome' = [hOutcome EXCEPT ![h] = Outcome("mismatch", r)]
                /\ hLog' = [hLog EXCEPT ![h] = "warn"]
                /\ UNCHANGED nodeData
           ELSE /\ nodeData' = upd.nd
                /\ IF ~upd.err.isNil
                   THEN /\ hOutcome' = [hOutcome EXCEPT ![h] = Outcome("updateError", r)]
                        /\ hLog' = [hLog EXCEPT ![h] = "error"]
                   ELSE /\ hOutcome' = [hOutcome EXCEPT ![h] = Outcome("updated", r)]
                        /\ hLog' = [hLog EXCEPT ![h] = "info"]
    /\ hPc' = [hPc EXCEPT ![h] = "idle"]
    /\ hStream' = [hStream EXCEPT ![h] = NoStream]
    /\ UNCHANGED <<cfgVars, gossipIn, monPc, mainVars, dump, sigPc, streamsHandled, dhtVars,
                   goVars, dispVars, chanVars>>

\* a peer opens a stream of the gossip protocol: the host hands it to the
\* handler Start set for that protocol (line 131), and refuses it when no
\* handler is set
GossipStream(senderStaked) ==
    /\ Alive
    /\ gossipIn' = GossipFate(IF "gossip" \in streamHandlers THEN "handled" ELSE "refused",
                              senderStaked)
    /\ UNCHANGED <<cfgVars, monPc, mainVars, trackerVars, sigPc, streamVars,
                   dhtVars, goVars, dispVars, chanVars>>

\* ------------------------------------------------------------------- Next
\* the node: main, Start, WithDht, the dispatcher, shutdown
NextNode ==
    \/ StartInstall
    \/ DhtResolveFail
    \/ DhtSkipSelf
    \/ \E res \in TryAddPeerResults : DhtTryAddPeer(res)
    \/ DhtSpawn
    \/ DhtWaitReturn
    \/ \E i \in Goroutines, ok \in BOOLEAN : GoConnect(i, ok)
    \/ \E i \in Goroutines : GoSleepDone(i)
    \/ \E i \in Goroutines, ok \in BOOLEAN : GoNewStream(i, ok)
    \/ \E i \in Goroutines : GoIncrWrite(i)
    \/ \E i \in Goroutines, ok \in BOOLEAN : GoWrite(i, ok)
    \/ \E s \in Sources : DispatcherReceive(s)
    \/ \E ok \in BOOLEAN : DispatcherConnect(ok)
    \/ DispatcherExit
    \/ \E a \in {PeerAdded, PeerRemoved}, p \in RemotePeers : RtCallback(a, p)
    \/ StartReturn
    \/ SignalMarkLeft
    \/ SignalDump
    \/ SignalCancel
    \/ MainExit

Spec == Init /\ [][NextNode]_vars

\* the node-data sync handler at work in a node whose bootstrap list names
\* nobody else: stream handlers run beside startup and shutdown
NextStream ==
    \/ StartInstall
    \/ DhtSkipSelf
    \/ DhtWaitReturn
    \/ StartReturn
    \/ SignalMarkLeft
    \/ SignalDump
    \/ SignalCancel
    \/ MainExit
    \/ \E h \in Handlers, r \in StreamResults : StreamOpen(h, r)
    \/ \E h \in Handlers : HandleStream(h)

InitStream ==
    /\ Init
    /\ \A i \in 1..Len(bootstrapNodes) : bootstrapNodes[i] = Self

SpecStream == InitStream /\ [][NextStream]_vars

\* the Go runtime schedules every runnable goroutine, and senders blocked on a
\* channel are served in the order they arrived
InitFair ==
    /\ Init
    /\ Len(bootstrapNodes) <= MaxBootFair

FairSpec ==
    /\ InitFair
    /\ [][NextNode]_vars
    /\ \A s \in Sources : SF_vars(DispatcherReceive(s))
    /\ WF_vars(\E ok \in BOOLEAN : DispatcherConnect(ok))

\* the node with its routing table monitor. Fairness: a goroutine that can
\* take a step is scheduled; a select with several ready cases picks one at
\* random, so a case that is ready again and again is taken in the end.
\* Nothing obliges main to return.
NextMonitor ==
    \/ NextNode
    \/ MonitorTick
    \/ MonitorLogged
    \/ MonitorExit

TermSpec ==
    /\ InitFair
    /\ [][NextMonitor]_vars
    /\ SF_vars(DispatcherExit)
    /\ WF_vars(\E ok \in BOOLEAN : DispatcherConnect(ok))
    /\ SF_vars(MonitorExit)
    /\ WF_vars(MonitorLogged)

\* WithDht as a function of its ctx argument: a caller that, unlike main,
\* cancels the context while WithDht is still running
CallerCancel ==
    /\ mainPc = "withDht"
    /\ ~ctxDone
    /\ ctxDone' = TRUE
    /\ UNCHANGED <<cfgVars, gossipIn, monPc, mainPc, streamHandlers, trackerVars, sigPc,
                   streamVars, dhtVars, goVars, dispVars, chanVars>>

NextCancel ==
    \/ NextNode
    \/ CallerCancel

SpecCancel == Init /\ [][NextCancel]_vars

\* the node, started from a short bootstrap list, with peers that open
\* gossip streams at any time
NextGossip ==
    \/ NextNode
    \/ \E senderStaked \in BOOLEAN : GossipStream(senderStaked)

SpecGossip == InitFair /\ [][NextGossip]_vars

\* ================================================================ properties

\* a handleStream invocation h returns in this step
Returns(h) == hPc[h] = "handling" /\ hPc'[h] = "idle"

\* C1: a stream whose payload claims a peerId other than the connection's
\* remote peer leaves the Tracker as it was, and the handler returns
C1_MismatchLeavesTracker ==
    [][\A h \in Handlers :
          (Returns(h) /\ hStream[h].err.isNil
              /\ hStream[h].remotePeer # hStream[h].peerId)
          => (nodeData' = nodeData /\ hOutcome'[h].kind = "mismatch" /\ Alive')]_vars

C1_Witness ==
    \E h \in Handlers :
        /\ hPc[h] = "idle"
        /\ hOutcome[h].kind = "mismatch"
        /\ hOutcome[h].remotePeer \in RemotePeers

\* C2: with the node-data sync handler as the writer, a record that has
\* isStaked = TRUE keeps it in every later state, whatever later payloads say
C2_StakedNeverDowngraded ==
    [][\A p \in Peers :
          (nodeData[p] # NoRecord /\ nodeData[p].isStaked)
          => (nodeData'[p] # NoRecord /\ nodeData'[p].isStaked)]_vars

\* the only handler that ever ran has just applied a payload saying
\* isStaked = FALSE, and the record still says TRUE
C2_Witness ==
    \E h \in Handlers :
        /\ hPc[h] = "idle"
        /\ hOutcome[h].kind = "updated"
        /\ ~hOutcome[h].isStaked
        /\ nodeData[hOutcome[h].remotePeer].isStaked
        /\ \A g \in Handlers \ {h} : hPc[g] = "idle" /\ hOutcome[g] = NoOutcome

\* C3: when the read fails with the un-staked error the handler returns with
\* the Tracker untouched, nothing logged, and the process still running
C3_UnstakedSilent ==
    [][\A h \in Handlers :
          (Returns(h) /\ hStream[h].err = ErrUnstaked)
          => (nodeData' = nodeData /\ hLog'[h] = "none" /\ Alive')]_vars

C3_Witness ==
    \E h \in Handlers :
        /\ hPc[h] = "idle"
        /\ hOutcome[h].kind = "unstaked"
        /\ hLog[h] = "none"

\* C4: an attempt goroutine whose address never answers has dialled it
\* maxRetries times by the time it ends
C4_RetriesUntilMax ==
    \A i \in Goroutines :
        (gPc[i] = "done" /\ bootstrapNodes[i] \notin Reachable)
        => attempts[i] = maxRetries

\* WithDht is over, by returning or by a panic
WithDhtEnded == dhtPc \in {"returned", "panicked"}

\* C5: with no reachable address in the list WithDht does not panic, and when
\* it is over every address of another peer has been dialled
C5_DegradedButAlive ==
    (\A i \in Goroutines : bootstrapNodes[i] \notin Reachable)
    => /\ dhtPc # "panicked"
       /\ WithDhtEnded =>
             \A i \in Goroutines : bootstrapNodes[i] \in RemotePeers => attempts[i] >= 1

\* C6: an address that does not resolve is logged and skipped: the connector
\* does not crash, nothing is registered or dialled for it, and when WithDht
\* is over the other peers' addresses have been dialled
C6_UnresolvableSkipped ==
    /\ dhtPc # "panicked"
    /\ \A i \in Goroutines :
          bootstrapNodes[i] = NoPeer => (i \notin registered /\ gPc[i] = "none")
    /\ WithDhtEnded =>
          \A i \in Goroutines :
              /\ bootstrapNodes[i] = NoPeer => i \in resolveLogged
              /\ bootstrapNodes[i] \in RemotePeers => attempts[i] >= 1

\* C7: when WithDht has returned no attempt goroutine is still running: each
\* address of another peer had its goroutine, and that goroutine has ended
C7_ReturnsAfterAllAttempts ==
    dhtPc = "returned"
    => \A i \in Goroutines :
          gPc[i] = IF bootstrapNodes[i] \in RemotePeers THEN "done" ELSE "none"

\* WithDht has returned after two attempts that ran side by side: both got
\* their stream, and one increment of peerConnectionCount overwrote the other
C7_Witness ==
    /\ dhtPc = "returned"
    /\ Cardinality({i \in Goroutines : gPc[i] = "done" /\ gStream[i] = "closed"}) = 2
    /\ peerConnectionCount = 1

\* C8: no routing-table callback is held in its send on PeerChan while the
\* dispatcher is inside Connect or has exited
C8_CallbackNeverStalled ==
    \A s \in Sources :
        pending[s] # NoEvent => dispPc \notin {"connect", "exited"}

\* C9 as first stated: no event is received twice, and an event that has been
\* emitted has been received once the dispatcher is gone
C9_EveryEventReceivedOnce ==
    /\ \A e \in EventIds : recvCount[e] <= 1
    /\ dispPc = "exited" => \A e \in emitted : recvCount[e] = 1

Unreceived(e) == e \in emitted /\ recvCount[e] = 0

\* C9, amended: an event is received at most once and only if emitted; until
\* it is received it stays with its blocked sender; while the context is not
\* cancelled the dispatcher is there to take it, and does
C9_ReceivedOnceUntilCancel ==
    /\ [](\A e \in EventIds :
            /\ recvCount[e] <= 1
            /\ recvCount[e] = 1 => e \in emitted
            /\ Unreceived(e) =>
                  /\ pending[e[1]].src = e[1] /\ pending[e[1]].seq = e[2]
                  /\ (Alive /\ ~ctxDone) => dispPc \in {"select", "connect"})
    /\ \A e \in EventIds :
          Unreceived(e) ~> (recvCount[e] = 1 \/ ctxDone \/ ~Alive)

\* an event of each source has been received, one of them while the boot
\* loop was held in its callback
C9_Witness ==
    /\ \E n \in 1..MaxBoot : recvCount[<<"boot", n>>] = 1
    /\ \E n \in 1..MaxRtEvents : recvCount[<<"rt", n>>] = 1
    /\ dispPc = "exited"

C11_LoopsTerminate ==
    /\ ctxDone ~> (dispPc = "exited" \/ ~Alive)
    /\ ctxDone ~> (monPc = "exited" \/ ~Alive)
    /\ [][/\ dispPc = "exited" =>
               (dispPc' = "exited" /\ UNCHANGED <<dispEvent, dispActs, recvCount>>)
          /\ monPc = "exited" => monPc' = "exited"]_vars

\* both loops have returned while the process is still running
C11_Witness ==
    /\ ctxDone /\ Alive
    /\ dispPc = "exited"
    /\ monPc = "exited"
    /\ \E e \in EventIds : recvCount[e] > 0

\* a step in which a Tracker operation is applied to the map: handleStream's
\* AddOrUpdateNodeData (part_002 line 209), Start's HandleNodeData (line 158)
TrackerStep ==
    \/ \E h \in Handlers : Returns(h)
    \/ mainPc = "selfRecord" /\ mainPc' = "running"

\* C12: a record of the Tracker's map changes only in a step that applies a
\* Tracker operation; no caller changes a record it holds a pointer to.
C12_OnlyTrackerMutates == [][nodeData' # nodeData => TrackerStep]_vars

\* handler h returns having handed its record to the Tracker
Applies(h) == Returns(h) /\ hOutcome'[h].kind = "updated"

\* C13 as claimed: after a handler's addOrUpdate the peer's record is that
\* call's record, field by field.
C13_LastCallWins ==
    [][\A h \in Handlers :
          Applies(h) => nodeData'[hStream[h].remotePeer] = StreamNodeData(hStream[h])]_vars

\* C13: addOrUpdate calls for one peer leave one record, under the peer's own
\* key; its multiaddress and activity are those of the call applied last, its
\* isStaked is that call's unless the record was already staked, and no other
\* peer's record changes.
C13_LastCallWinsButStake ==
    [][\A h \in Handlers :
          Applies(h) =>
              LET p == hStream[h].remotePeer
              IN  /\ nodeData'[p].peerId = p
                  /\ nodeData'[p].multiaddr = hStream[h].addr
                  /\ nodeData'[p].activity = ActivityJoined
                  /\ nodeData'[p].isStaked = (hStream[h].isStaked \/ nodeData[p].isStaked)
                  /\ \A q \in Peers \ {p} : nodeData'[q] = nodeData[q]]_vars

\* two handlers have applied their calls for one peer with different
\* multiaddresses and different stakes; the record is staked
C13_Witness ==
    \E p \in RemotePeers :
        /\ \A h \in Handlers : hPc[h] = "idle" /\ hOutcome[h].kind = "updated"
                                 /\ hOutcome[h].remotePeer = p
        /\ hOutcome[1].addr # hOutcome[2].addr
        /\ hOutcome[1].isStaked # hOutcome[2].isStaked
        /\ nodeData[p].isStaked
        /\ \E h \in Handlers : nodeData[p].multiaddr = hOutcome[h].addr /\ ~hOutcome[h].isStaked

\* C14: a handshake stream that was opened is closed by the time its attempt
\* goroutine has ended, whether the write went through or failed; no stream
\* of an attempt is open when WithDht returns.
C14_StreamsClosed ==
    /\ \A i \in Goroutines : gPc[i] = "done" => gStream[i] # "open"
    /\ \A i \in Goroutines : gWrote[i] # "none" => gStream[i] = "closed"
    /\ dhtPc = "returned" => \A i \in Goroutines : gStream[i] # "open"

\* WithDht has returned after one handshake was written and another failed
\* to write, both streams closed
C14_Witness ==
    /\ dhtPc = "returned"
    /\ \E i, j \in Goroutines :
        /\ gWrote[i] = "failed" /\ gStream[i] = "closed"
        /\ gWrote[j] = "ok" /\ gStream[j] = "closed"

\* goroutine i makes its host.Connect call in this step
ConnectStep(i) == gPc[i] = "connect" /\ attempts'[i] = attempts[i] + 1

Connected(i) == attempts[i] >= 1 /\ counter[i] = 0

\* C16: when WithDht has returned, the soft warning was emitted exactly when
\* the list is not empty and no address was connected; a successful Connect
\* rules the warning out.
C16_WarnedIffNoConnection ==
    dhtPc = "returned" =>
        (warned <=> (Len(bootstrapNodes) > 0 /\ ~\E i \in Goroutines : Connected(i)))

\* the goroutines that are between the load and the store of line 113
Incrementing == {i \in Goroutines : gPc[i] = "incrWrite"}

\* C17: nothing outside the Tracker is written by two tasks at once: no two
\* attempt goroutines are inside peerConnectionCount++ together, and the
\* count WithDht reads at the end is the number of increments that were made.
C17_OnlyTrackerShared ==
    /\ Cardinality(Incrementing) <= 1
    /\ dhtPc = "returned" =>
           peerConnectionCount = Cardinality({i \in Goroutines : gStream[i] # "none"})

\* C18: for the event the dispatcher has received: a PeerAdded event gets one
\* Connect, followed by ClosePeer when (and only when) the Connect failed; a
\* PeerRemoved event gets no network call; and the next event is received
\* only when the calls for the current one are over.
C18_DispatcherActs ==
    /\ [](dispEvent # NoEvent =>
            IF dispEvent.action = PeerAdded
            THEN IF dispPc = "connect"
                 THEN dispActs = <<>>
                 ELSE /\ dispActs \in {<<"Connect">>, <<"Connect", "ClosePeer">>}
                      /\ dispEvent.peer \notin Reachable => dispActs = <<"Connect", "ClosePeer">>
                      /\ (dispEvent.peer \in Reachable /\ ~ctxDone) => dispActs = <<"Connect">>
            ELSE dispPc # "connect" /\ dispActs = <<>>)
    /\ [][recvCount' # recvCount =>
             /\ dispPc = "select"
             /\ dispEvent.action = PeerAdded => dispActs # <<>>]_vars

\* the Connect for a PeerAdded event failed, the peer was closed and the
\* dispatcher is back at its select; a PeerRemoved event is waiting
C18_Witness ==
    /\ dispPc = "select"
    /\ dispEvent.action = PeerAdded
    /\ dispActs = <<"Connect", "ClosePeer">>
    /\ pending["rt"].action = PeerRemoved

\* C19: an address that is the node's own is never registered, dialled or
\* sent a handshake, and no event is emitted for it; every other resolved
\* address gets its goroutine and its Connect whether or not TryAddPeer took
\* it into the routing table.
C19_SelfSkippedOthersAttempted ==
    /\ \A i \in Goroutines :
           bootstrapNodes[i] = Self =>
               /\ i \notin registered
               /\ gPc[i] = "none" /\ attempts[i] = 0 /\ gStream[i] = "none"
               /\ <<"boot", i>> \notin emitted
    /\ \A i \in regFailed : idx > i => gPc[i] # "none"
    /\ dhtPc = "returned" =>
           \A i \in Goroutines :
               bootstrapNodes[i] \in RemotePeers => (i \in registered /\ attempts[i] >= 1)

\* WithDht has returned from a list with the node's own address and an
\* address TryAddPeer refused, which was dialled and sent the handshake
C19_Witness ==
    /\ dhtPc = "returned"
    /\ \E i \in Goroutines : bootstrapNodes[i] = Self
    /\ \E i \in regFailed : attempts[i] = 1 /\ gWrote[i] = "ok"

\* C20: startup goes through: while the context is live WithDht ends only by
\* returning, and by then every PeerAdded event its TryAddPeer calls sent
\* has been received by the dispatcher, which is in its loop all along.
C20_StartupReturns ==
    /\ (dhtPc \in {"loop", "cbsend", "spawn", "wait"} /\ ~ctxDone) =>
           dispPc \in {"select", "connect"}
    /\ (WithDhtEnded /\ mainPc # "exited") =>
           /\ dhtPc = "returned"
           /\ \A i \in registered \ regFailed : recvCount[<<"boot", i>>] = 1

\* C21: the gossip handler is set by Start exactly on a staked node, the
\* handlers set by Start never change afterwards, an un-staked node hands no
\* gossip stream to a handler whoever sent it, and the primary and node-data
\* sync handlers are set before any bootstrap address is dialled.
C21_GossipOnlyWhenStaked ==
    /\ [](mainPc = "new" => streamHandlers = {})
    /\ [](mainPc # "new" =>
            /\ {"oracle", "nodeDataSync"} \subseteq streamHandlers
            /\ "gossip" \in streamHandlers <=> isStaked)
    /\ [][mainPc # "new" => streamHandlers' = streamHandlers]_vars
    /\ [](~isStaked => gossipIn.fate # "handled")
    /\ [](\A i \in Goroutines :
            (gPc[i] # "none" \/ attempts[i] > 0) =>
                {"oracle", "nodeDataSync"} \subseteq streamHandlers)

\* an un-staked node that has dialled a bootstrap address refused the gossip
\* stream of a staked sender
C21_Witness ==
    /\ ~isStaked
    /\ "gossip" \notin streamHandlers
    /\ gossipIn = GossipFate("refused", TRUE)
    /\ \E i \in Goroutines : attempts[i] > 0

====
